---- MODULE Spec2Model ----
(***************************************************************************)
(* Retrieval / normalization layer and page flow of the shopping assistant *)
(*   - RapidAPIShoppingTool._run, _parse_response, _get_fallback_data      *)
(*     (src/tools/rapidapi_tool.py)                                        *)
(*   - clean_json_response (src/utils/helpers.py)                          *)
(*   - main, initialize_crew (src/app.py): credential checks, crew run,    *)
(*     parsing and display of the stage outputs                            *)
(*                                                                         *)
(* Representation.  A Python str is a sequence of non-empty fragments      *)
(* (TLA+ strings); user-entered text such as the query is written one      *)
(* character per fragment so that lower(), title(), the `in` substring     *)
(* test and the regular expressions act on characters.  A JSON value is a  *)
(* tagged record: Null, S(str), O(dict), L(list).  A dict is a function    *)
(* from keys to JSON values; a missing key is a key outside its DOMAIN.    *)
(***************************************************************************)
EXTENDS Naturals, Sequences, FiniteSets

VARIABLES pc, query, rapidapi_key, idx, calls, outcomes, response, result,
          exc, runs, prev,
          p_pc, p_host, p_data, p_out,
          c_pc, c_in, c_cleaned, c_tried, c_ret,
          m_pc, GROQ_API_KEY, RAPIDAPI_KEY, user_query, search_button,
          agents, kickoffs, crew_result, parsed, shown

vars == <<pc, query, rapidapi_key, idx, calls, outcomes, response, result,
          exc, runs, prev, p_pc, p_host, p_data, p_out,
          c_pc, c_in, c_cleaned, c_tried, c_ret,
          m_pc, GROQ_API_KEY, RAPIDAPI_KEY, user_query, search_button,
          agents, kickoffs, crew_result, parsed, shown>>

run_vars == <<pc, query, rapidapi_key, idx, calls, outcomes, response, result,
              exc, runs, prev>>

parse_vars == <<p_pc, p_host, p_data, p_out>>

clean_vars == <<c_pc, c_in, c_cleaned, c_tried, c_ret>>

main_vars == <<m_pc, GROQ_API_KEY, RAPIDAPI_KEY, user_query, search_button,
               agents, kickoffs, crew_result, parsed, shown>>

-----------------------------------------------------------------------------
(* Bounds of the model *)

\* longest record list a backend returns (the code reads the first 8)
MaxItems == 9

\* invocations of _run with the same query
MaxRuns == 2

\* longest JSON array in a generated text
MaxElems == 2

-----------------------------------------------------------------------------
(* Python values *)

Null == [t |-> "null"]

S(s) == [t |-> "str", s |-> s]

O(o) == [t |-> "obj", o |-> o]

L(l) == [t |-> "list", l |-> l]

Str(lit) == <<lit>>

EmptyDict == [k \in {} |-> Null]

\* bool(v): None, "", {} and [] are falsy
Truthy(v) ==
    CASE v.t = "null" -> FALSE
      [] v.t = "str"  -> Len(v.s) > 0
      [] v.t = "obj"  -> DOMAIN v.o # {}
      [] v.t = "list" -> Len(v.l) > 0
      [] v.t = "num"  -> v.n # 0

\* d.get(k, default) on a dict d
Get(d, k, default) == IF k \in DOMAIN d THEN d[k] ELSE default

\* v.get(...) raises AttributeError unless v is a dict
IsDict(v) == v.t = "obj"

\* seq[:n]
Take(seq, n) == SubSeq(seq, 1, IF Len(seq) < n THEN Len(seq) ELSE n)

-----------------------------------------------------------------------------
(* Characters *)

UpperChars ==
    <<"A","B","C","D","E","F","G","H","I","J","K","L","M",
      "N","O","P","Q","R","S","T","U","V","W","X","Y","Z">>

LowerChars ==
    <<"a","b","c","d","e","f","g","h","i","j","k","l","m",
      "n","o","p","q","r","s","t","u","v","w","x","y","z">>

DigitChars == {"0","1","2","3","4","5","6","7","8","9"}

SpaceChars == {" "}

IndexIn(tab, c) == CHOOSE i \in DOMAIN tab : tab[i] = c

IsUpper(c) == \E i \in DOMAIN UpperChars : UpperChars[i] = c

IsLower(c) == \E i \in DOMAIN LowerChars : LowerChars[i] = c

IsCased(c) == IsUpper(c) \/ IsLower(c)

LowerChar(c) == IF IsUpper(c) THEN LowerChars[IndexIn(UpperChars, c)] ELSE c

UpperChar(c) == IF IsLower(c) THEN UpperChars[IndexIn(LowerChars, c)] ELSE c

\* str.lower()
Lower(s) == [i \in DOMAIN s |-> LowerChar(s[i])]

\* str.title(): a cased character is upper-cased when it follows an uncased
\* one (or starts the string) and lower-cased otherwise
TitleCase(s) ==
    [i \in DOMAIN s |->
        IF i = 1 \/ ~IsCased(s[i - 1]) THEN UpperChar(s[i]) ELSE LowerChar(s[i])]

\* `sub in s`
Contains(s, sub) ==
    \E i \in 1..(Len(s) + 1) :
        /\ i + Len(sub) - 1 <= Len(s)
        /\ SubSeq(s, i, i + Len(sub) - 1) = sub

\* \w of the regular expressions
IsWordChar(c) == IsCased(c) \/ c \in DigitChars \/ c = "_"

\* re.sub(r'[^\w\s]', '', s)
StripPunct(s) == SelectSeq(s, LAMBDA c : IsWordChar(c) \/ c \in SpaceChars)

\* str.split(): the maximal runs of non-whitespace characters
RECURSIVE SplitFrom(_, _, _)
SplitFrom(s, i, cur) ==
    IF i > Len(s)
    THEN IF cur = <<>> THEN <<>> ELSE <<cur>>
    ELSE IF s[i] \in SpaceChars
         THEN IF cur = <<>>
              THEN SplitFrom(s, i + 1, <<>>)
              ELSE <<cur>> \o SplitFrom(s, i + 1, <<>>)
         ELSE SplitFrom(s, i + 1, Append(cur, s[i]))

Split(s) == SplitFrom(s, 1, <<>>)

\* sep.join(words)
RECURSIVE Join(_, _)
Join(sep, words) ==
    IF words = <<>> THEN <<>>
    ELSE IF Len(words) = 1 THEN words[1]
    ELSE words[1] \o sep \o Join(sep, Tail(words))

-----------------------------------------------------------------------------
(* RapidAPIShoppingTool._extract_asin_from_url *)

AsinLen == 10

IsAsinChar(c) == IsUpper(c) \/ c \in DigitChars

\* [A-Z0-9]{10} matches at position i of s
AsinAt(s, i) ==
    /\ i >= 1
    /\ i + AsinLen - 1 <= Len(s)
    /\ \A j \in i..(i + AsinLen - 1) : IsAsinChar(s[j])

\* the literal `lit` occurs at position i of s
LitAt(s, i, lit) ==
    /\ i >= 1
    /\ i + Len(lit) - 1 <= Len(s)
    /\ SubSeq(s, i, i + Len(lit) - 1) = lit

\* positions where prefix + ([A-Z0-9]{10}) matches; `closed` adds (?:/|$)
AsinMatches(s, prefix, closed) ==
    {i \in 1..Len(s) :
        /\ LitAt(s, i, prefix)
        /\ AsinAt(s, i + Len(prefix))
        /\ (closed => LET e == i + Len(prefix) + AsinLen
                      IN  e = Len(s) + 1 \/ (e <= Len(s) /\ s[e] = "/"))}

Min(set) == CHOOSE m \in set : \A n \in set : m <= n

\* re.search(...).group(1): the group of the leftmost match
AsinGroup(s, prefix, closed) ==
    LET i == Min(AsinMatches(s, prefix, closed))
    IN  SubSeq(s, i + Len(prefix), i + Len(prefix) + AsinLen - 1)

asin_patterns ==
    << [prefix |-> <<"/","d","p","/">>, closed |-> FALSE],
       [prefix |-> <<"/","p","r","o","d","u","c","t","/">>, closed |-> FALSE],
       [prefix |-> <<"a","s","i","n","=">>, closed |-> FALSE],
       [prefix |-> <<"/">>, closed |-> TRUE] >>

\* re.search(pattern, url) raises TypeError when url is truthy and not a str
ExtractAsinRaises(url) == Truthy(url) /\ url.t # "str"

_extract_asin_from_url(url) ==
    IF ~Truthy(url) THEN Null
    ELSE LET hits == {k \in DOMAIN asin_patterns :
                        AsinMatches(url.s, asin_patterns[k].prefix,
                                    asin_patterns[k].closed) # {}}
         IN  IF hits = {} THEN Null
             ELSE LET k == Min(hits)
                  IN  S(AsinGroup(url.s, asin_patterns[k].prefix,
                                  asin_patterns[k].closed))

-----------------------------------------------------------------------------
(* RapidAPIShoppingTool._parse_response *)

Hosts ==
    << "real-time-product-search.p.rapidapi.com",
       "amazon-product-reviews-keywords.p.rapidapi.com",
       "shopping-product-search.p.rapidapi.com" >>

MaxProductsUncapped == MaxItems + 1

MaxProducts == 8

DescLimit == 200

NA == S(Str("N/A"))

EmptyStr == S(<<>>)

Ellipsis == <<".", ".", ".">>

\* x[:200] + '...' raises TypeError unless x is a str
DescRaises(d) == Truthy(d) /\ d.t # "str"

\* `x[:200] + '...' if x else ''`
Describe(d) ==
    IF Truthy(d) THEN S(Take(d.s, DescLimit) \o Ellipsis) ELSE EmptyStr

\* item.get(outer, {}).get(inner, default)
Nested(item, outer, inner, default) ==
    Get(Get(item.o, outer, O(EmptyDict)).o, inner, default)

NestedRaises(item, outer) == ~IsDict(Get(item.o, outer, O(EmptyDict)))

\* item.get('product_photos', [{}])[0].get('link', '') if item.get('product_photos') else ''
PhotoRaises(item) ==
    LET ph == Get(item.o, "product_photos", Null)
    IN  Truthy(ph) /\ ~(ph.t = "list" /\ IsDict(ph.l[1]))

PhotoLink(item) ==
    LET ph == Get(item.o, "product_photos", Null)
    IN  IF Truthy(ph) THEN Get(ph.l[1].o, "link", EmptyStr) ELSE EmptyStr

MakeProduct(title, price, rating, image_url, buy_url, description) ==
    [ title       |-> title,
      price       |-> price,
      rating      |-> rating,
      image_url   |-> image_url,
      buy_url     |-> buy_url,
      asin        |-> _extract_asin_from_url(buy_url),
      product_id  |-> _extract_asin_from_url(buy_url),
      description |-> description ]

\* building the product dict of one record raises (lines 124-136)
RealTimeRaises(item) ==
    \/ ~IsDict(item)
    \/ NestedRaises(item, "offer")
    \/ ExtractAsinRaises(Nested(item, "offer", "offer_page_url", EmptyStr))
    \/ PhotoRaises(item)
    \/ DescRaises(Get(item.o, "product_description", Null))

RealTimeProduct(item) ==
    MakeProduct(Get(item.o, "product_title", EmptyStr),
                Nested(item, "offer", "price", NA),
                Get(item.o, "product_rating", NA),
                PhotoLink(item),
                Nested(item, "offer", "offer_page_url", EmptyStr),
                Describe(Get(item.o, "product_description", Null)))

\* lines 144-156
AmazonRaises(item) ==
    \/ ~IsDict(item)
    \/ ExtractAsinRaises(Get(item.o, "url", EmptyStr))
    \/ NestedRaises(item, "price")
    \/ NestedRaises(item, "reviews")
    \/ DescRaises(Get(item.o, "description", Null))

AmazonProductFlatRating(item) ==
    MakeProduct(Get(item.o, "title", EmptyStr),
                Nested(item, "price", "current_price", NA),
                Get(item.o, "rating", NA),
                Get(item.o, "image", EmptyStr),
                Get(item.o, "url", EmptyStr),
                Describe(Get(item.o, "description", Null)))

AmazonProduct(item) ==
    MakeProduct(Get(item.o, "title", EmptyStr),
                Nested(item, "price", "current_price", NA),
                Nested(item, "reviews", "rating", NA),
                Get(item.o, "image", EmptyStr),
                Get(item.o, "url", EmptyStr),
                Describe(Get(item.o, "description", Null)))

\* lines 163-175
ShoppingRaises(item) ==
    \/ ~IsDict(item)
    \/ ExtractAsinRaises(Get(item.o, "link", EmptyStr))
    \/ DescRaises(Get(item.o, "description", Null))

ShoppingProduct(item) ==
    MakeProduct(Get(item.o, "name", EmptyStr),
                Get(item.o, "price", NA),
                Get(item.o, "rating", NA),
                Get(item.o, "image", EmptyStr),
                Get(item.o, "link", EmptyStr),
                Describe(Get(item.o, "description", Null)))

\* the key of the record list in each backend's payload
ItemsKey(host) ==
    CASE host = Hosts[1] -> "data"
      [] host = Hosts[2] -> "products"
      [] host = Hosts[3] -> "results"

ItemRaises(item, host) ==
    CASE host = Hosts[1] -> RealTimeRaises(item)
      [] host = Hosts[2] -> AmazonRaises(item)
      [] host = Hosts[3] -> ShoppingRaises(item)

ItemProduct(item, host) ==
    CASE host = Hosts[1] -> RealTimeProduct(item)
      [] host = Hosts[2] -> AmazonProduct(item)
      [] host = Hosts[3] -> ShoppingProduct(item)

\* `if product['title'] and product['price'] != 'N/A'`
IsValidProduct(product) == Truthy(product.title) /\ product.price # NA

RECURSIVE ParseItemsSkipping(_, _, _)
ParseItemsSkipping(items, host, products) ==
    IF items = <<>> THEN products
    ELSE IF ItemRaises(Head(items), host)
    THEN ParseItemsSkipping(Tail(items), host, products)
    ELSE LET product == ItemProduct(Head(items), host)
         IN  ParseItemsSkipping(Tail(items), host,
                                IF IsValidProduct(product)
                                THEN Append(products, product)
                                ELSE products)

\* the for loop over items[:8]; an exception ends the loop and keeps what
\* was appended before it (the try/except encloses the whole loop)
RECURSIVE ParseItems(_, _, _)
ParseItems(items, host, products) ==
    IF items = <<>> THEN products
    ELSE IF ItemRaises(Head(items), host) THEN products
    ELSE LET product == ItemProduct(Head(items), host)
         IN  ParseItems(Tail(items), host,
                        IF IsValidProduct(product)
                        THEN Append(products, product)
                        ELSE products)

\* data.get(key, []) raises unless data is a dict; items[:8] of anything
\* but a list of records ends in the except branch with no product
_parse_response(data, host) ==
    IF ~(\E k \in DOMAIN Hosts : Hosts[k] = host) THEN <<>>
    ELSE IF ~IsDict(data) THEN <<>>
    ELSE LET items == Get(data.o, ItemsKey(host), L(<<>>))
         IN  IF items.t # "list" THEN <<>>
             ELSE ParseItems(Take(items.l, MaxProducts), host, <<>>)

-----------------------------------------------------------------------------
(* RapidAPIShoppingTool._get_fallback_data *)

kw_headphones == <<"h","e","a","d","p","h","o","n","e","s">>

kw_earbuds == <<"e","a","r","b","u","d","s">>

kw_laptop == <<"l","a","p","t","o","p">>

FallbackSource == "fallback_data"

FallbackNote ==
    "API endpoints unavailable, showing sample results with working product links."

Canned(title, price, rating, image_url, buy_url, asin, description) ==
    [ title       |-> S(title),
      price       |-> S(Str(price)),
      rating      |-> S(Str(rating)),
      image_url   |-> S(Str(image_url)),
      buy_url     |-> S(buy_url),
      asin        |-> asin,
      product_id  |-> asin,
      description |-> S(description) ]

HeadphonesSet ==
    << Canned(Str("Sony WH-CH720N Wireless Noise Canceling Headphones"), "$149.99", "4.4",
              "https://via.placeholder.com/300x300?text=Sony+Headphones",
              Str("https://www.amazon.com/dp/B0BXQVQC1W"), S(Str("B0BXQVQC1W")),
              Str("Wireless over-ear headphones with active noise canceling and up to 35 hours battery life.")),
       Canned(Str("Apple AirPods (3rd Generation)"), "$179.00", "4.6",
              "https://via.placeholder.com/300x300?text=Apple+AirPods",
              Str("https://www.amazon.com/dp/B0BDHB9Y8H"), S(Str("B0BDHB9Y8H")),
              Str("Wireless earbuds with spatial audio, MagSafe charging case, and up to 30 hours total listening time.")) >>

LaptopSet ==
    << Canned(Str("ASUS VivoBook 15 Laptop"), "$599.99", "4.3",
              "https://via.placeholder.com/300x300?text=ASUS+Laptop",
              Str("https://www.amazon.com/dp/B0863DW238"), S(Str("B0863DW238")),
              Str("15.6\" Full HD display, Intel Core i5 processor, 8GB RAM, 512GB SSD.")),
       Canned(Str("HP Pavilion 15 Laptop"), "$649.99", "4.2",
              "https://via.placeholder.com/300x300?text=HP+Laptop",
              Str("https://www.amazon.com/dp/B08XLJ7ZBZ"), S(Str("B08XLJ7ZBZ")),
              Str("15.6\" Full HD display, AMD Ryzen 5 processor, 8GB RAM, 256GB SSD.")) >>

\* clean_query = re.sub(r'[^\w\s]', '', query); words = clean_query.split()[:3]
SearchWords(q) == Take(Split(StripPunct(q)), 3)

GenericSet(q) ==
    << Canned(Str("Best ") \o TitleCase(q) \o Str(" - Top Rated"), "$99.99", "4.5",
              "https://via.placeholder.com/300x300?text=Product+1",
              Str("https://www.amazon.com/s?k=") \o Join(<<"+">>, SearchWords(q))
                  \o Str("&crid=BESTSELLER"),
              Null,
              Str("High-quality ") \o q
                  \o Str(" with excellent reviews and fast shipping.")),
       Canned(Str("Premium ") \o TitleCase(q) \o Str(" - Amazon Choice"), "$149.99", "4.7",
              "https://via.placeholder.com/300x300?text=Product+2",
              Str("https://www.amazon.com/s?k=") \o Join(<<"+">>, SearchWords(q))
                  \o Str("+premium&crid=AMAZONCHOICE"),
              Null,
              Str("Premium ") \o q
                  \o Str(" with advanced features and excellent customer satisfaction.")) >>

sample_products_no_else(q) ==
    IF Contains(Lower(q), kw_headphones) \/ Contains(Lower(q), kw_earbuds)
    THEN HeadphonesSet
    ELSE IF Contains(Lower(q), kw_laptop)
         THEN LaptopSet
         ELSE <<>>

sample_products_laptop_first(q) ==
    IF Contains(Lower(q), kw_laptop)
    THEN LaptopSet
    ELSE IF Contains(Lower(q), kw_headphones) \/ Contains(Lower(q), kw_earbuds)
         THEN HeadphonesSet
         ELSE GenericSet(q)

\* the if / elif / else over query.lower()
sample_products(q) ==
    IF Contains(Lower(q), kw_headphones) \/ Contains(Lower(q), kw_earbuds)
    THEN HeadphonesSet
    ELSE IF Contains(Lower(q), kw_laptop)
         THEN LaptopSet
         ELSE GenericSet(q)

_get_fallback_data(q) ==
    [ success     |-> TRUE,
      products    |-> sample_products(q),
      total_found |-> Len(sample_products(q)),
      source      |-> FallbackSource,
      note        |-> FallbackNote ]

-----------------------------------------------------------------------------
(* Inputs: queries, credentials and backend responses *)

Queries ==
    { <<>>,
      <<"h","e","a","d","p","h","o","n","e","s">>,
      <<"H","E","A","D","P","H","O","N","E","S">>,
      <<"W","i","r","e","l","e","s","s"," ","H","e","a","d","P","h","o","n","e","s">>,
      <<"l","a","p","t","o","p"," ","h","e","a","d","p","h","o","n","e","s">>,
      <<"h","E","a","D","p","H","o","N","e","S"," ","f","o","r"," ","l","a","p","t","o","p">>,
      <<"x","h","e","a","d","p","h","o","n","e","s","x">>,
      <<"h","e","a","d"," ","p","h","o","n","e","s">>,
      <<"E","a","r","B","u","d","s"," ","p","r","o">>,
      <<"g","a","m","i","n","g"," ","l","a","p","t","o","p"," ","u","n","d","e","r"," ","$","1","0","0","0">>,
      <<"r","u","n","n","i","n","g"," ","s","h","o","e","s","!">>,
      <<"u","s","b","-","c"," ","c","a","b","l","e">> }

\* os.getenv("RAPIDAPI_KEY"): unset, set to the empty string, or set
Keys == { Null, EmptyStr, S(Str("rapidapi-key")) }

NumStr == <<"1","2","3","4","5","6","7","8","9","10","11","12">>

\* the ways one raw record can be well or ill formed
RecordKinds ==
    { "valid", "no_title", "empty_title", "null_title", "no_price",
      "no_container", "price_na", "null_price", "null_container", "not_a_dict" }

OddKinds == RecordKinds \ {"valid"}

TitleKey(host) ==
    CASE host = Hosts[1] -> "product_title"
      [] host = Hosts[2] -> "title"
      [] host = Hosts[3] -> "name"

\* a dict with one key
KV(k, v) == [x \in {k} |-> v]

\* f then g: the union of two dicts with disjoint keys
Merge(f, g) ==
    [x \in DOMAIN f \cup DOMAIN g |-> IF x \in DOMAIN f THEN f[x] ELSE g[x]]

\* the price part of a record in the backend's shape: nested under offer
\* (backend 1), nested under price (backend 2), flat (backend 3)
PricePart(host, kind, price) ==
    LET inner == CASE kind \in {"no_price"} -> EmptyDict
                   [] kind = "price_na"     -> KV(IF host = Hosts[1] THEN "price" ELSE "current_price", NA)
                   [] kind = "null_price"   -> KV(IF host = Hosts[1] THEN "price" ELSE "current_price", Null)
                   [] OTHER                 -> KV(IF host = Hosts[1] THEN "price" ELSE "current_price", price)
        outer == IF host = Hosts[1] THEN "offer" ELSE "price"
    IN  IF host = Hosts[3]
        THEN CASE kind \in {"no_price", "no_container"} -> EmptyDict
               [] kind = "price_na"                      -> KV("price", NA)
               [] kind \in {"null_price", "null_container"} -> KV("price", Null)
               [] OTHER                                  -> KV("price", price)
        ELSE CASE kind = "no_container"   -> EmptyDict
               [] kind = "null_container" -> KV(outer, Null)
               [] OTHER                   -> KV(outer, O(inner))

TitlePart(host, kind, title) ==
    CASE kind = "no_title"    -> EmptyDict
      [] kind = "empty_title" -> KV(TitleKey(host), EmptyStr)
      [] kind = "null_title"  -> KV(TitleKey(host), Null)
      [] OTHER                -> KV(TitleKey(host), title)

\* the n-th raw record of a payload, of the given kind, in the backend's shape
Record(host, kind, n) ==
    IF kind = "not_a_dict" THEN Null
    ELSE O(Merge(TitlePart(host, kind, S(<<"Product ", NumStr[n]>>)),
                 PricePart(host, kind, S(<<"$", NumStr[n], ".99">>))))

\* record lists of length n: all valid but for the positions in `odd`
RecordList(host, n, odd) ==
    [i \in 1..n |-> Record(host, IF i \in DOMAIN odd THEN odd[i] ELSE "valid", i)]

\* payloads with at most one ill-formed record
RecordLists(host) ==
    { RecordList(host, n, [i \in {} |-> "valid"]) : n \in 0..MaxItems }
    \cup { RecordList(host, n[1], KV(n[2], k)) :
             n \in {m \in (1..MaxItems) \X (1..MaxItems) : m[2] <= m[1]},
             k \in OddKinds }

VivoBook ==
    O(Merge(KV("name", S(Str("ASUS VivoBook 15 Laptop"))),
            KV("price", S(Str("$599.99")))))

Payloads(host) ==
    { O(KV(ItemsKey(host), L(l))) : l \in RecordLists(host) }
    \cup { O(EmptyDict), O(KV(ItemsKey(host), Null)), L(<<>>), Null }
    \cup { O(KV("results", L(<<VivoBook>>))) }

\* what requests.get(...) does: raise, or return a response whose body may
\* not be JSON
Responses(host) ==
    { [kind |-> "exception", name |-> e] : e \in {"Timeout", "ConnectionError"} }
    \cup { [kind |-> "http", status |-> c, json |-> FALSE, data |-> Null] :
             c \in {200, 404, 500, 503} }
    \cup { [kind |-> "http", status |-> 200, json |-> TRUE, data |-> d] :
             d \in Payloads(host) }
    \cup { [kind |-> "http", status |-> 500, json |-> TRUE, data |-> d] :
             d \in {O(KV(ItemsKey(host), L(RecordList(host, 1, [i \in {} |-> "valid"]))))} }

NoResponse == [kind |-> "none"]

NoResult == [none |-> TRUE]

-----------------------------------------------------------------------------
(* RapidAPIShoppingTool._run *)

endpoints_swapped == <<Hosts[2], Hosts[1], Hosts[3]>>

\* the hosts of the list lines 32-61, in its order
endpoints_to_try == Hosts

KeyNeverMissing(key) == FALSE

\* `if not rapidapi_key`
KeyMissing(key) == ~Truthy(key)

ExceptReraise(out) == out

MissingKeyResult == [error |-> "RapidAPI key not found", products |-> <<>>]

TryRequestFirstSource(resp, host) ==
    IF resp.kind = "exception"
    THEN [kind |-> "raise", name |-> resp.name]
    ELSE IF resp.status # 200
    THEN [kind |-> "next", why |-> "status"]
    ELSE IF ~resp.json
    THEN [kind |-> "raise", name |-> "JSONDecodeError"]
    ELSE LET products == _parse_response(resp.data, host)
         IN  IF products # <<>>
             THEN [kind   |-> "return",
                   value  |-> [ success     |-> TRUE,
                                products    |-> products,
                                total_found |-> Len(products),
                                source      |-> Hosts[1] ]]
             ELSE [kind |-> "next", why |-> "empty"]

\* lines 63-87: the body of the try block for one endpoint
TryRequest(resp, host) ==
    IF resp.kind = "exception"
    THEN [kind |-> "raise", name |-> resp.name]
    ELSE IF resp.status # 200
    THEN [kind |-> "next", why |-> "status"]
    ELSE IF ~resp.json
    THEN [kind |-> "raise", name |-> "JSONDecodeError"]
    ELSE LET products == _parse_response(resp.data, host)
         IN  IF products # <<>>
             THEN [kind   |-> "return",
                   value  |-> [ success     |-> TRUE,
                                products    |-> products,
                                total_found |-> Len(products),
                                source      |-> host ]]
             ELSE [kind |-> "next", why |-> "empty"]

\* lines 89-91: except Exception: print(...); continue
ExceptContinue(out) ==
    IF out.kind = "raise" THEN [kind |-> "next", why |-> "exception"] ELSE out

\* lines 23-29
CheckCredential ==
    /\ pc = "call"
    /\ IF KeyMissing(rapidapi_key)
       THEN /\ result' = MissingKeyResult
            /\ pc' = "done"
            /\ idx' = idx
       ELSE /\ result' = result
            /\ pc' = "loop"
            /\ idx' = 1
    /\ UNCHANGED <<query, rapidapi_key, calls, outcomes, response, exc, runs, prev>>
    /\ UNCHANGED <<parse_vars, clean_vars, main_vars>>

\* one iteration of `for endpoint in endpoints_to_try`; `response` is dead
\* once the loop moves on, so only a response that is returned from is kept
Attempt ==
    /\ pc = "loop"
    /\ idx <= Len(endpoints_to_try)
    /\ \E resp \in Responses(endpoints_to_try[idx]) :
         LET out == ExceptContinue(TryRequest(resp, endpoints_to_try[idx]))
         IN  /\ calls' = Append(calls, endpoints_to_try[idx])
             /\ response' = IF out.kind = "return" THEN resp ELSE NoResponse
             /\ outcomes' = Append(outcomes,
                                   IF out.kind = "next" THEN out.why
                                   ELSE IF out.kind = "return" THEN "ok" ELSE "raised")
             /\ CASE out.kind = "return" ->
                       /\ result' = out.value
                       /\ pc' = "done"
                       /\ UNCHANGED <<idx, exc>>
                  [] out.kind = "next" ->
                       /\ idx' = idx + 1
                       /\ UNCHANGED <<result, pc, exc>>
                  [] out.kind = "raise" ->
                       /\ exc' = out.name
                       /\ pc' = "done"
                       /\ UNCHANGED <<idx, result>>
    /\ UNCHANGED <<query, rapidapi_key, runs, prev>>
    /\ UNCHANGED <<parse_vars, clean_vars, main_vars>>

\* lines 93-94: the loop is exhausted
Fallback ==
    /\ pc = "loop"
    /\ idx > Len(endpoints_to_try)
    /\ result' = _get_fallback_data(query)
    /\ pc' = "done"
    /\ UNCHANGED <<query, rapidapi_key, idx, calls, outcomes, response, exc, runs, prev>>
    /\ UNCHANGED <<parse_vars, clean_vars, main_vars>>

\* the tool is invoked again with the same query after sample data came back
Again ==
    /\ pc = "done"
    /\ exc = "none"
    /\ "source" \in DOMAIN result
    /\ result.source = FallbackSource
    /\ runs < MaxRuns
    /\ runs' = runs + 1
    /\ prev' = result
    /\ pc' = "call"
    /\ idx' = 0
    /\ calls' = <<>>
    /\ outcomes' = <<>>
    /\ response' = NoResponse
    /\ result' = NoResult
    /\ UNCHANGED <<query, rapidapi_key, exc>>
    /\ UNCHANGED <<parse_vars, clean_vars, main_vars>>

\* no call of _parse_response on its own, none of clean_json_response
ParseIdle == p_pc = "idle" /\ p_host = "" /\ p_data = Null /\ p_out = <<>>

CleanIdle ==
    c_pc = "idle" /\ c_in = Null /\ c_cleaned = <<>> /\ c_tried = <<>> /\ c_ret = Null

\* the result of no crew run
NoCrewResult == [kind |-> "none"]

\* nothing parsed from a crew result
NothingParsed == [ok |-> FALSE]

\* the page is not being run
MainIdle ==
    /\ m_pc = "idle"
    /\ GROQ_API_KEY = Null
    /\ RAPIDAPI_KEY = Null
    /\ user_query = EmptyStr
    /\ search_button = FALSE
    /\ agents = Null
    /\ kickoffs = 0
    /\ crew_result = NoCrewResult
    /\ parsed = NothingParsed
    /\ shown = <<>>

Init ==
    /\ pc = "call"
    /\ query \in Queries
    /\ rapidapi_key \in Keys
    /\ idx = 0
    /\ calls = <<>>
    /\ outcomes = <<>>
    /\ response = NoResponse
    /\ result = NoResult
    /\ exc = "none"
    /\ runs = 1
    /\ prev = NoResult
    /\ ParseIdle
    /\ CleanIdle
    /\ MainIdle

Next == CheckCredential \/ Attempt \/ Fallback \/ Again

Spec == Init /\ [][Next]_vars

-----------------------------------------------------------------------------
(* Properties of the Retriever *)

Failed == {"exception", "status", "empty"}

Done == pc = "done"

KeyPresent == Truthy(rapidapi_key)

FromBackend == Done /\ outcomes # <<>> /\ outcomes[Len(outcomes)] = "ok"

Exhausted == Done /\ KeyPresent /\ Len(outcomes) = Len(Hosts) /\ outcomes[Len(Hosts)] \in Failed

\* the record list of a backend payload
ItemsOf(data, host) == data.o[ItemsKey(host)].l

\* the records mapped before the loop is cut short: the first 8, and only
\* those before the first record whose mapping raises
Reached(items, host) ==
    LET raisers == {i \in DOMAIN items : ItemRaises(items[i], host)}
        cut     == IF raisers = {} THEN Len(items) ELSE Min(raisers) - 1
    IN  SubSeq(items, 1, IF cut < MaxProducts THEN cut ELSE MaxProducts)

IsValidRecord(item, host) ==
    /\ ~ItemRaises(item, host)
    /\ Truthy(ItemProduct(item, host).title)
    /\ ItemProduct(item, host).price # NA

ValidRecords(items, host) == SelectSeq(items, LAMBDA it : IsValidRecord(it, host))

Normalized(items, host) == [i \in DOMAIN items |-> ItemProduct(items[i], host)]

\* C1: with the credential present the backends are requested in the
\* declared order, each at most once; a backend is requested only after every
\* earlier one failed or yielded no valid Product; after the first backend
\* that yields a Product nothing more is requested and the result holds
\* exactly that backend's Products.
C1_FixedOrderFirstSuccess ==
    /\ Len(calls) <= Len(Hosts)
    /\ Len(outcomes) = Len(calls)
    /\ \A i \in DOMAIN calls : calls[i] = Hosts[i]
    /\ \A i \in DOMAIN outcomes : i < Len(outcomes) => outcomes[i] \in Failed
    /\ \A i \in DOMAIN outcomes : outcomes[i] = "ok" => Done /\ i = Len(calls)
    /\ FromBackend =>
         /\ result.source = calls[Len(calls)]
         /\ result.products =
              Normalized(ValidRecords(Reached(ItemsOf(response.data, result.source),
                                              result.source), result.source),
                         result.source)

C1_Witness ==
    /\ FromBackend
    /\ Len(calls) = 2
    /\ outcomes[1] = "empty"
    /\ Len(result.products) > 1

\* C2: a backend attempt that raises, answers with a status other than 200,
\* has an unreadable body or yields no valid Product makes the loop go on to
\* the next backend; no exception leaves _run and the result carries no
\* error.
C2_FailuresAreSwallowed ==
    /\ exc = "none"
    /\ \A i \in DOMAIN outcomes : outcomes[i] \in Failed \cup {"ok"}
    /\ \A i \in DOMAIN outcomes :
         outcomes[i] \in Failed =>
           \/ i < Len(calls)
           \/ pc = "loop" /\ idx = i + 1
           \/ Done /\ i = Len(Hosts) /\ result.source = FallbackSource
    /\ (Done /\ KeyPresent) => ("error" \notin DOMAIN result /\ result.success)

C2_Witness ==
    /\ FromBackend
    /\ outcomes = <<"exception", "status", "ok">>
    /\ exc = "none"
    /\ "error" \notin DOMAIN result

\* C3: with RAPIDAPI_KEY missing _run returns the credential-missing result
\* (an error field and an empty product list) without any HTTP request, and
\* no result returned with the credential present looks like it.
C3_MissingCredential ==
    /\ ~KeyPresent => calls = <<>>
    /\ (Done /\ ~KeyPresent) =>
         /\ "error" \in DOMAIN result
         /\ result.products = <<>>
         /\ "success" \notin DOMAIN result
    /\ (Done /\ KeyPresent) =>
         /\ "error" \notin DOMAIN result
         /\ result.products # <<>>
         /\ calls # <<>>

C3_Witness == Done /\ rapidapi_key = EmptyStr /\ "error" \in DOMAIN result /\ calls = <<>>

\* C4: when every backend is exhausted the result is the synthetic fallback:
\* at least one Product, a source that is no backend's identifier, a
\* non-empty note, and the same result whenever the same query is exhausted
\* again.
C4_FallbackNeverFails ==
    Exhausted =>
      /\ exc = "none"
      /\ Len(result.products) >= 1
      /\ result.total_found = Len(result.products)
      /\ result.source = "fallback_data"
      /\ \A k \in DOMAIN Hosts : result.source # Hosts[k]
      /\ result.note # ""
      /\ prev # NoResult => result = prev

C4_Witness ==
    /\ Exhausted
    /\ prev # NoResult
    /\ ~Contains(Lower(query), kw_laptop)
    /\ ~Contains(Lower(query), kw_headphones)
    /\ ~Contains(Lower(query), kw_earbuds)
    /\ outcomes = <<"status", "empty", "exception">>

\* C5: every Product of every returned list has a non-empty title and a
\* price that is present (a non-empty string) and is not "N/A".
C5_TitleAndPrice ==
    Done =>
      \A i \in DOMAIN result.products :
        /\ result.products[i].title.t = "str"
        /\ result.products[i].title.s # <<>>
        /\ result.products[i].price.t = "str"
        /\ result.products[i].price.s # <<>>
        /\ result.products[i].price # NA

\* C6: for a non-empty query with the credential present the returned list
\* has at least 1 and at most 8 Products, whatever the backends do.
C6_OneToEight ==
    (Done /\ KeyPresent /\ query # <<>>) =>
      /\ Len(result.products) >= 1
      /\ Len(result.products) <= 8

C6_Witness ==
    /\ FromBackend
    /\ query # <<>>
    /\ Len(ItemsOf(response.data, result.source)) > 8
    /\ Len(result.products) = 8

\* C7 as stated: the result of a backend that answers holds the Products of
\* all its valid records and total_found counts them (stated here for
\* payloads in which no record's mapping raises).
C7_AllValidRecordsReturned ==
    (FromBackend /\ \A i \in DOMAIN ItemsOf(response.data, result.source) :
                       ~ItemRaises(ItemsOf(response.data, result.source)[i], result.source)) =>
      /\ result.products =
           Normalized(ValidRecords(ItemsOf(response.data, result.source), result.source),
                      result.source)
      /\ result.total_found =
           Len(ValidRecords(ItemsOf(response.data, result.source), result.source))

\* C7 (amended): if backends 1..k-1 each fail or yield no Product and n >= 1
\* valid records are among the first 8 records of backend k's payload (before
\* any record whose mapping raises), _run returns exactly the Products
\* normalized from those n records, total_found = n and source = backend k's
\* host; two failing backends and a third returning the one VivoBook record
\* give a single-element list tagged with the third backend.
C7_FirstUsableBackendWins ==
    FromBackend =>
      LET k     == Len(calls)
          items == ItemsOf(response.data, Hosts[k])
          valid == ValidRecords(Reached(items, Hosts[k]), Hosts[k])
      IN  /\ \A i \in 1..(k - 1) : outcomes[i] \in Failed
          /\ Len(valid) >= 1
          /\ result.products = Normalized(valid, Hosts[k])
          /\ result.total_found = Len(valid)
          /\ result.source = Hosts[k]
          /\ (k = 3 /\ items = <<VivoBook>>) =>
               /\ Len(result.products) = 1
               /\ result.products[1].title = S(Str("ASUS VivoBook 15 Laptop"))
               /\ result.products[1].price = S(Str("$599.99"))
               /\ result.source = "shopping-product-search.p.rapidapi.com"

C7_Witness ==
    /\ FromBackend
    /\ outcomes = <<"status", "status", "ok">>
    /\ ItemsOf(response.data, Hosts[3]) = <<VivoBook>>
    /\ result.total_found = 1

\* "headphones" occurs in q in any letter case
HasHeadphones(q) ==
    \E i \in DOMAIN q :
        /\ i + Len(kw_headphones) - 1 <= Len(q)
        /\ \A j \in DOMAIN kw_headphones : LowerChar(q[i + j - 1]) = kw_headphones[j]

\* C8: for a query containing "headphones" in any letter case (also one that
\* contains "laptop"), with the credential present and every backend
\* exhausted, _run returns exactly the canned two-item headphones set with
\* the synthetic source tag and a non-empty note.
C8_HeadphonesFallback ==
    (Exhausted /\ HasHeadphones(query)) =>
      /\ result.products = HeadphonesSet
      /\ Len(result.products) = 2
      /\ result.total_found = 2
      /\ result.source = "fallback_data"
      /\ result.note # ""

C8_Witness ==
    /\ Exhausted
    /\ HasHeadphones(query)
    /\ Contains(Lower(query), kw_laptop)
    /\ ~Contains(query, kw_headphones)
    /\ \A i \in DOMAIN outcomes : outcomes[i] \in {"exception", "status"}

-----------------------------------------------------------------------------
(* _parse_response on its own: any backend shape, payloads with up to two
   ill-formed records *)

\* record lists with exactly two ill-formed records, at positions i < j
RecordListsTwoOdd(host) ==
    { RecordList(host, n[1], Merge(KV(n[2], k[1]), KV(n[3], k[2]))) :
        n \in {m \in (1..MaxItems) \X (1..MaxItems) \X (1..MaxItems) :
                 m[2] < m[3] /\ m[3] <= m[1]},
        k \in OddKinds \X OddKinds }

SampleUrls ==
    { <<>>,
      <<"h","t","t","p","s",":","/","/","w","w","w",".","a","m","a","z","o","n",".","c","o","m","/","d","p","/","B","0","8","6","3","D","W","2","3","8">>,
      <<"h","t","t","p","s",":","/","/","s","h","o","p",".","e","x","a","m","p","l","e","/","i","t","e","m","/","A","B","C","D","E","F","G","H","I","J","/">>,
      <<"h","t","t","p","s",":","/","/","s","h","o","p",".","e","x","a","m","p","l","e","/","A","B","C","D","E","F","G","H","I","J","K">>,
      <<"h","t","t","p","s",":","/","/","s","h","o","p",".","e","x","a","m","p","l","e","/","g","p","/","p","r","o","d","u","c","t","/","B","0","8","6","3","D","W","2","3","8","X","X","?","a","s","i","n","=","1","2","3","4","5","6","7","8","9","0">> }

SampleDescription == <<"F","a","s","t"," ","a","n","d"," ","l","i","g","h","t",".">>

\* a record with every field the backend's shape has
FullRecord(host, url) ==
    LET title  == S(Str("ASUS VivoBook 15 Laptop"))
        price  == S(Str("$599.99"))
        rating == S(Str("4.3"))
        image  == S(Str("https://img.example/asus.jpg"))
        desc   == S(SampleDescription)
    IN  CASE host = Hosts[1] ->
               O([ product_title       |-> title,
                   offer               |-> O([price |-> price, offer_page_url |-> S(url)]),
                   product_rating      |-> rating,
                   product_photos      |-> L(<<O([link |-> image])>>),
                   product_description |-> desc ])
          [] host = Hosts[2] ->
               O([ title       |-> title,
                   price       |-> O([current_price |-> price]),
                   reviews     |-> O([rating |-> rating]),
                   image       |-> image,
                   url         |-> S(url),
                   description |-> desc ])
          [] host = Hosts[3] ->
               O([ name        |-> title,
                   price       |-> price,
                   rating      |-> rating,
                   image       |-> image,
                   link        |-> S(url),
                   description |-> desc ])

\* a field the record does not carry
Absent == [t |-> "absent"]

\* a text of n characters
Chars(n) == [i \in 1..n |-> "x"]

\* source descriptions: none, null, empty, short, exactly at and just over
\* the limit of the slice
Descriptions ==
    { Absent, Null, EmptyStr, S(SampleDescription),
      S(Chars(DescLimit)), S(Chars(DescLimit + 1)) }

\* what a record says, whatever the backend: rating, image and description
\* are optional
Contents ==
    { [ title  |-> S(Str("ASUS VivoBook 15 Laptop")),
        price  |-> S(Str("$599.99")),
        rating |-> r,
        image  |-> im,
        url    |-> u,
        desc   |-> d ] :
        r \in {S(Str("4.3")), Absent},
        im \in {S(Str("https://img.example/asus.jpg")), Absent},
        u \in SampleUrls,
        d \in Descriptions }

\* the key is left out when the field is absent
Opt(k, v) == IF v = Absent THEN EmptyDict ELSE KV(k, v)

DescKey(host) == IF host = Hosts[1] THEN "product_description" ELSE "description"

\* the record with content c in the backend's shape, as each branch of
\* _parse_response reads it
ShapedRecord(host, c) ==
    CASE host = Hosts[1] ->
           O(Merge(KV("product_title", c.title),
             Merge(KV("offer", O(Merge(KV("price", c.price),
                                       KV("offer_page_url", S(c.url))))),
             Merge(Opt("product_rating", c.rating),
             Merge(IF c.image = Absent THEN EmptyDict
                   ELSE KV("product_photos", L(<<O(KV("link", c.image))>>)),
                   Opt("product_description", c.desc))))))
      [] host = Hosts[2] ->
           O(Merge(KV("title", c.title),
             Merge(KV("price", O(KV("current_price", c.price))),
             Merge(IF c.rating = Absent THEN EmptyDict
                   ELSE KV("reviews", O(KV("rating", c.rating))),
             Merge(Opt("image", c.image),
             Merge(KV("url", S(c.url)),
                   Opt("description", c.desc)))))))
      [] host = Hosts[3] ->
           O(Merge(KV("name", c.title),
             Merge(KV("price", c.price),
             Merge(Opt("rating", c.rating),
             Merge(Opt("image", c.image),
             Merge(KV("link", S(c.url)),
                   Opt("description", c.desc)))))))

\* a payload holding that one record
ShapedPayload(host, c) == O(KV(ItemsKey(host), L(<<ShapedRecord(host, c)>>)))

ParsePayloads(host) ==
    Payloads(host)
    \cup { O(KV(ItemsKey(host), L(l))) : l \in RecordListsTwoOdd(host) }
    \cup { O(KV(ItemsKey(host), L(<<FullRecord(host, u)>>))) : u \in SampleUrls }
    \cup { ShapedPayload(host, c) : c \in Contents }

\* no call of _run
RunIdle ==
    /\ pc = "idle"
    /\ query = <<>>
    /\ rapidapi_key = Null
    /\ idx = 0
    /\ calls = <<>>
    /\ outcomes = <<>>
    /\ response = NoResponse
    /\ result = NoResult
    /\ exc = "none"
    /\ runs = 1
    /\ prev = NoResult

ParseInit ==
    /\ p_pc = "call"
    /\ p_host \in {Hosts[k] : k \in DOMAIN Hosts}
    /\ p_data \in ParsePayloads(p_host)
    /\ p_out = <<>>
    /\ RunIdle
    /\ CleanIdle
    /\ MainIdle

\* products = self._parse_response(data, host)
Parse ==
    /\ p_pc = "call"
    /\ p_out' = _parse_response(p_data, p_host)
    /\ p_pc' = "done"
    /\ UNCHANGED <<p_host, p_data>>
    /\ UNCHANGED <<run_vars, clean_vars, main_vars>>

ParseNext == Parse

SpecParse == ParseInit /\ [][ParseNext]_vars

\* the payload of the parse under way carries a record list
HasRecordList ==
    /\ IsDict(p_data)
    /\ ItemsKey(p_host) \in DOMAIN p_data.o
    /\ p_data.o[ItemsKey(p_host)].t = "list"

\* C9: _parse_response returns exactly the order-preserving subsequence of
\* the first 8 raw records that have a non-empty title and a price other than
\* "N/A": a record without them is left out, nothing stands in for it, and
\* the records after it are still processed (stated here for payloads whose
\* records are all mappings and carry no null price).
C9_ValidSubsequenceOfFirstEight ==
    (p_pc = "done" /\ HasRecordList
       /\ \A i \in DOMAIN ItemsOf(p_data, p_host) :
            LET item == ItemsOf(p_data, p_host)[i]
            IN  /\ IsDict(item)
                /\ ~ItemRaises(item, p_host) => ItemProduct(item, p_host).price # Null) =>
      p_out = Normalized(ValidRecords(Take(ItemsOf(p_data, p_host), 8), p_host), p_host)

-----------------------------------------------------------------------------
(* clean_json_response.  A text is a sequence of tokens: JSON punctuation,
   string and number literals, whitespace, the triple-backtick fence marker,
   a language tag and prose words. *)

N(n) == [t |-> "num", n |-> n]

WsTokens == {" ", "\n"}

\* the token standing for the three backticks of a code fence
Fence == "<fence>"

StringTokens ==
    <<"\"a\"", "\"products\"", "\"error\"",
      "\"recommendations\"", "\"best_purchase_option\"">>

StringValues ==
    <<"a", "products", "error", "recommendations", "best_purchase_option">>

NumberTokens == <<"1", "2">>

IsStringTok(t) == \E i \in DOMAIN StringTokens : StringTokens[i] = t

IsNumberTok(t) == \E i \in DOMAIN NumberTokens : NumberTokens[i] = t

\* the key or text a string literal denotes
Unquote(t) == StringValues[IndexIn(StringTokens, t)]

\* the token at position i, "" past the end
Tok(s, i) == IF i \in DOMAIN s THEN s[i] ELSE ""

\* the first position >= i that holds no whitespace
SkipWs(s, i) ==
    IF \E j \in i..Len(s) : s[j] \notin WsTokens
    THEN Min({j \in i..Len(s) : s[j] \notin WsTokens})
    ELSE Len(s) + 1

ParseFail == [ok |-> FALSE, val |-> Null, next |-> 0]

ParseOk(v, next) == [ok |-> TRUE, val |-> v, next |-> next]

\* d[k] = v
SetKey(d, k, v) == [x \in DOMAIN d \cup {k} |-> IF x = k THEN v ELSE d[x]]

\* json.JSONDecoder: a value starting at position i
RECURSIVE ParseValue(_, _)
RECURSIVE ParseMembers(_, _, _)
RECURSIVE ParseElems(_, _, _)

ParseValue(s, i0) ==
    LET i == SkipWs(s, i0)
        t == Tok(s, i)
        j == SkipWs(s, i + 1)
    IN  CASE t = "{" -> IF Tok(s, j) = "}" THEN ParseOk(O(EmptyDict), j + 1)
                        ELSE ParseMembers(s, j, EmptyDict)
          [] t = "[" -> IF Tok(s, j) = "]" THEN ParseOk(L(<<>>), j + 1)
                        ELSE ParseElems(s, j, <<>>)
          [] IsStringTok(t) -> ParseOk(S(Str(Unquote(t))), i + 1)
          [] IsNumberTok(t) -> ParseOk(N(IndexIn(NumberTokens, t)), i + 1)
          [] OTHER -> ParseFail

\* "key" : value, then `,` and another member or `}`
ParseMembers(s, i, acc) ==
    LET colon == SkipWs(s, i + 1)
    IN  IF ~IsStringTok(Tok(s, i)) \/ Tok(s, colon) # ":" THEN ParseFail
        ELSE LET v   == ParseValue(s, colon + 1)
                 m   == SkipWs(s, v.next)
                 obj == SetKey(acc, Unquote(Tok(s, i)), v.val)
             IN  IF ~v.ok THEN ParseFail
                 ELSE IF Tok(s, m) = "}" THEN ParseOk(O(obj), m + 1)
                 ELSE IF Tok(s, m) = "," THEN ParseMembers(s, SkipWs(s, m + 1), obj)
                 ELSE ParseFail

\* value, then `,` and another element or `]`
ParseElems(s, i, acc) ==
    LET v == ParseValue(s, i)
        m == SkipWs(s, v.next)
    IN  IF ~v.ok THEN ParseFail
        ELSE IF Tok(s, m) = "]" THEN ParseOk(L(Append(acc, v.val)), m + 1)
        ELSE IF Tok(s, m) = "," THEN ParseElems(s, m + 1, Append(acc, v.val))
        ELSE ParseFail

\* json.loads(s): one value and nothing but whitespace after it; ok = FALSE
\* stands for json.JSONDecodeError
json_loads(s) ==
    LET r == ParseValue(s, 1)
    IN  IF r.ok /\ SkipWs(s, r.next) > Len(s) THEN r ELSE ParseFail

\* re.sub of the fence marker followed by json and whitespace (line 13)
RECURSIVE SubJsonFence(_, _)
SubJsonFence(s, i) ==
    IF i > Len(s) THEN <<>>
    ELSE IF s[i] = Fence /\ Tok(s, i + 1) = "json"
         THEN SubJsonFence(s, SkipWs(s, i + 2))
         ELSE <<s[i]>> \o SubJsonFence(s, i + 1)

\* re.sub of a fence marker with only whitespace after it (line 14)
SubTrailingFence(s) ==
    IF \E i \in DOMAIN s : s[i] = Fence /\ SkipWs(s, i + 1) > Len(s)
    THEN SubSeq(s, 1, (CHOOSE i \in DOMAIN s : s[i] = Fence /\ SkipWs(s, i + 1) > Len(s)) - 1)
    ELSE s

\* str.strip()
StripWs(s) ==
    IF SkipWs(s, 1) > Len(s) THEN <<>>
    ELSE SubSeq(s, SkipWs(s, 1),
                CHOOSE j \in DOMAIN s :
                    s[j] \notin WsTokens /\ \A k \in (j + 1)..Len(s) : s[k] \in WsTokens)

\* lines 13-17
Cleaned(text) == StripWs(SubTrailingFence(SubJsonFence(text, 1)))

BraceMatchShortest(s) ==
    SubSeq(s,
           Min({i \in DOMAIN s : s[i] = "{"}),
           Min({j \in DOMAIN s : s[j] = "}" /\ j > Min({i \in DOMAIN s : s[i] = "{"})}))

\* re.search(r'\{.*\}', cleaned, re.DOTALL): from the first { to the last }
HasBraceMatch(s) ==
    \E i, j \in DOMAIN s :
        i < j /\ s[i] = "{" /\ s[j] = "}" /\ \A k \in 1..(i - 1) : s[k] # "{"

BraceMatch(s) ==
    SubSeq(s,
           Min({i \in DOMAIN s : s[i] = "{"}),
           CHOOSE j \in DOMAIN s : s[j] = "}" /\ \A k \in (j + 1)..Len(s) : s[k] # "}")

\* lines 28-33: the dict returned from the except branches
ErrorResult(msg) == O([error |-> S(Str(msg)), products |-> L(<<>>)])

\* return json.loads(text) inside the try
LoadOrError(text) ==
    IF json_loads(text).ok THEN json_loads(text).val
    ELSE ErrorResult("Could not parse response")

\* lines 13-26 on a text, as one function: what clean_json_response returns
clean_json_text(text) ==
    IF HasBraceMatch(Cleaned(text))
    THEN LoadOrError(BraceMatch(Cleaned(text)))
    ELSE LoadOrError(Cleaned(text))

\* the text inputs: JSON documents two levels deep, damaged documents and
\* prose, bare or inside a fence, with or without prose around them
BaseDocs == { <<"1">>, <<"\"a\"">>, <<"{", "}">>, <<"[", "]">> }

ObjOf(v) == <<"{", "\"products\"", ":", " ">> \o v \o <<"}">>

ArrOf(vs) == <<"[">> \o Join(<<",">>, vs) \o <<"]">>

Arrays(elems) == { ArrOf(t) : t \in UNION { [1..n -> elems] : n \in 1..MaxElems } }

Docs1 == BaseDocs \cup { ObjOf(v) : v \in BaseDocs } \cup Arrays(BaseDocs)

Docs ==
    Docs1
    \cup { ObjOf(v) : v \in Docs1 }
    \cup Arrays({ ObjOf(v) : v \in BaseDocs })
    \cup { <<"{", "\"products\"", ":", "[", "]", ",", " ", "\"error\"", ":", "\"a\"", "}">> }

Damaged ==
    { SubSeq(d, 1, Len(d) - 1) : d \in Docs }
    \cup { d \o <<"}">> : d \in Docs }
    \cup { d \o <<" ", "and", " ">> \o ObjOf(<<"2">>) : d \in Docs }

Prose == { <<>>, <<"Here">>, <<"Here", " ", "{">>, <<"}", " ", "and", " ", "{">> }

Prefixes == { <<>>, <<"Here", " ">> }

OpenFences == { <<>>, <<Fence, "json", "\n">>, <<Fence, "\n">>, <<Fence, "python", "\n">> }

CloseFences == { <<>>, <<"\n", Fence>>, <<"\n", Fence, "\n">> }

Suffixes == { <<>>, <<" ", "Here">> }

Texts ==
    { w[1] \o w[2] \o b \o w[3] \o w[4] :
        w \in Prefixes \X OpenFences \X CloseFences \X Suffixes,
        b \in Docs \cup Damaged \cup Prose }

\* what the caller passes: a text, a dict, or something else
CleanInputs ==
    { S(t) : t \in Texts }
    \cup { O([products |-> L(<<>>)]), O([error |-> S(Str("upstream"))]), O(EmptyDict) }
    \cup { Null, L(<<>>), N(1) }

CleanInit ==
    /\ c_pc = "call"
    /\ c_in \in CleanInputs
    /\ c_cleaned = <<>>
    /\ c_tried = <<>>
    /\ c_ret = Null
    /\ RunIdle
    /\ ParseIdle
    /\ MainIdle

AlreadyDictWithProducts(response_text) ==
    IsDict(response_text) /\ "products" \in DOMAIN response_text.o

\* isinstance(response_text, dict)
AlreadyDict(response_text) == IsDict(response_text)

\* lines 7-17: pass a dict through, else strip the fences; re.sub raises
\* TypeError on anything that is not a str
StripFences ==
    /\ c_pc = "call"
    /\ IF AlreadyDict(c_in)
       THEN /\ c_ret' = c_in
            /\ c_pc' = "done"
            /\ UNCHANGED c_cleaned
       ELSE IF c_in.t # "str"
       THEN /\ c_ret' = ErrorResult("expected string or bytes-like object")
            /\ c_pc' = "done"
            /\ UNCHANGED c_cleaned
       ELSE /\ c_cleaned' = Cleaned(c_in.s)
            /\ c_pc' = "cleaned"
            /\ UNCHANGED c_ret
    /\ UNCHANGED <<c_in, c_tried>>
    /\ UNCHANGED <<run_vars, parse_vars, main_vars>>

\* lines 20-23: a brace-delimited substring exists and is the only thing parsed
ParseBraces ==
    /\ c_pc = "cleaned"
    /\ HasBraceMatch(c_cleaned)
    /\ c_tried' = Append(c_tried, "braces")
    /\ c_ret' = LoadOrError(BraceMatch(c_cleaned))
    /\ c_pc' = "done"
    /\ UNCHANGED <<c_in, c_cleaned>>
    /\ UNCHANGED <<run_vars, parse_vars, main_vars>>

\* line 26: no brace-delimited substring, the cleaned text is parsed whole
ParseWhole ==
    /\ c_pc = "cleaned"
    /\ ~HasBraceMatch(c_cleaned)
    /\ c_tried' = Append(c_tried, "whole")
    /\ c_ret' = LoadOrError(c_cleaned)
    /\ c_pc' = "done"
    /\ UNCHANGED <<c_in, c_cleaned>>
    /\ UNCHANGED <<run_vars, parse_vars, main_vars>>

CleanNext == StripFences \/ ParseBraces \/ ParseWhole

SpecClean == CleanInit /\ [][CleanNext]_vars

\* a text went through the parsing steps
TextDone == c_pc = "done" /\ c_in.t = "str"

\* C10 as stated: the cleaned text is parsed directly first, so a raw text
\* whose cleaned form is a valid JSON document yields that document.
C10_DirectParseFirst ==
    (TextDone /\ json_loads(c_cleaned).ok) => c_ret = json_loads(c_cleaned).val

\* C10 (amended): after fence stripping exactly one parse is attempted: of
\* the substring from the first { to the last } when there is one, of the
\* whole cleaned text only when there is none.  A raw text whose cleaned form
\* is a valid JSON object, or a valid JSON document without braces, yields
\* that document; a top-level array holding objects does not.
C10_BraceSubstringFirst ==
    TextDone =>
      /\ Len(c_tried) = 1
      /\ c_tried[1] = "braces" <=>
           \E i, j \in DOMAIN c_cleaned : i < j /\ c_cleaned[i] = "{" /\ c_cleaned[j] = "}"
      /\ (json_loads(c_cleaned).ok /\ json_loads(c_cleaned).val.t = "obj") =>
           c_ret = json_loads(c_cleaned).val
      /\ (json_loads(c_cleaned).ok /\ c_tried[1] = "whole") =>
           c_ret = json_loads(c_cleaned).val
      /\ (json_loads(c_cleaned).ok /\ json_loads(c_cleaned).val.t = "list"
            /\ c_tried[1] = "braces") =>
           c_ret # json_loads(c_cleaned).val

C10_Witness ==
    /\ TextDone
    /\ c_tried = <<"braces">>
    /\ c_in.s # c_cleaned
    /\ json_loads(c_cleaned).ok
    /\ json_loads(c_cleaned).val.t = "obj"
    /\ "products" \in DOMAIN c_ret.o
    /\ c_ret.o["products"].t = "obj"

\* no parsing attempt succeeded on a text without a brace-delimited substring
AllAttemptsFailed ==
    /\ TextDone
    /\ c_tried = <<"whole">>
    /\ c_cleaned # <<>>
    /\ \A i \in DOMAIN c_in.s : c_in.s[i] \notin {"{", "}"}
    /\ ~json_loads(c_cleaned).ok

\* C11: when every parsing attempt fails (prose with no braces), the result
\* has an error field, an empty product list, and some field holding the
\* original raw input text verbatim.
C11_ErrorKeepsRawText ==
    AllAttemptsFailed =>
      /\ IsDict(c_ret)
      /\ "error" \in DOMAIN c_ret.o
      /\ "products" \in DOMAIN c_ret.o
      /\ c_ret.o["products"] = L(<<>>)
      /\ \E k \in DOMAIN c_ret.o : c_ret.o[k] = c_in

\* C12: for every input the call ends in one of two terminal states, a
\* structured mapping or the error-shaped result (itself a mapping); never a
\* bare list, number or string.
C12_MappingOrError ==
    c_pc = "done" => IsDict(c_ret)

\* C13: a mapping given as input is returned unchanged, whatever its keys,
\* and neither the stripping nor a parsing step is run on it.
C13_MappingPassesThrough ==
    (c_pc = "done" /\ IsDict(c_in)) =>
      /\ c_ret = c_in
      /\ c_cleaned = <<>>
      /\ c_tried = <<>>

C13_Witness ==
    /\ c_pc = "done"
    /\ IsDict(c_in)
    /\ "error" \in DOMAIN c_in.o
    /\ "products" \notin DOMAIN c_in.o
    /\ c_ret = c_in

\* the language tags of an opening fence
FenceTags == {"json", "python"}

\* the text is a JSON payload inside a fenced code block with a language tag
IsFencedPayload(text, tag, payload) ==
    /\ json_loads(payload).ok
    /\ text = <<Fence, tag, "\n">> \o payload \o <<"\n", Fence>>

\* C14: a JSON payload wrapped in a fenced code block with a language tag,
\* whatever the tag, gives the same result as the unwrapped payload.
C14_FenceWithAnyTag ==
    TextDone =>
      \A tag \in FenceTags, payload \in Docs :
        IsFencedPayload(c_in.s, tag, payload) => c_ret = clean_json_text(payload)

\* the parse under way is of a payload holding the one record with content c
ParsedShaped(c) == p_pc = "done" /\ p_data = ShapedPayload(p_host, c)

\* the description the Product should carry for a source description d
ExpectedDescription(d) ==
    IF d \in {Absent, Null, EmptyStr} THEN EmptyStr
    ELSE IF Len(d.s) <= DescLimit THEN d
    ELSE S(Take(d.s, DescLimit) \o Ellipsis)

\* C17: for every backend shape the description of a Product is the source
\* description unchanged when it has at most 200 characters, its first 200
\* characters followed by the ellipsis only when it is longer, and the empty
\* string when it is absent or empty.
C17_DescriptionTruncation ==
    \A c \in Contents :
      ParsedShaped(c) =>
        /\ Len(p_out) = 1
        /\ p_out[1].description = ExpectedDescription(c.desc)

\* the value a Product field takes for an optional source field
OrDefault(v, default) == IF v = Absent THEN default ELSE v

\* C18: a record with the same content in each of the three backend shapes
\* is normalized to the same Product, with the same keys and values,
\* whichever shape it came from.
C18_SameProductFromEveryShape ==
    \A c \in Contents :
      ParsedShaped(c) =>
        /\ \A k \in DOMAIN Hosts :
             _parse_response(ShapedPayload(Hosts[k], c), Hosts[k]) = p_out
        /\ Len(p_out) = 1
        /\ p_out[1].title = c.title
        /\ p_out[1].price = c.price
        /\ p_out[1].rating = OrDefault(c.rating, NA)
        /\ p_out[1].image_url = OrDefault(c.image, EmptyStr)
        /\ p_out[1].buy_url = S(c.url)
        /\ p_out[1].asin = p_out[1].product_id

C18_Witness ==
    /\ p_pc = "done"
    /\ p_host = Hosts[2]
    /\ \E c \in Contents :
         /\ p_data = ShapedPayload(p_host, c)
         /\ c.rating # Absent
         /\ c.image # Absent
         /\ c.desc = S(SampleDescription)
    /\ Len(p_out) = 1
    /\ p_out[1].rating = S(Str("4.3"))
    /\ p_out[1].asin # Null
    /\ Len(p_out[1].asin.s) = AsinLen

\* the positions among the first 8 records whose mapping raises
Raisers ==
    {i \in 1..Len(Take(ItemsOf(p_data, p_host), MaxProducts)) :
       ItemRaises(ItemsOf(p_data, p_host)[i], p_host)}

\* the records in front of the first one whose mapping raises
BeforeRaise == SubSeq(ItemsOf(p_data, p_host), 1, Min(Raisers) - 1)

\* a 200 answer of the backend carrying the payload of the parse under way
Answer200 == [kind |-> "http", status |-> 200, json |-> TRUE, data |-> p_data]

\* C19: when mapping some record among the first 8 raises, _parse_response
\* still returns: exactly the valid Products mapped before that record and
\* none of the records after it; _run returns that partial list when it is
\* non-empty and otherwise moves on to the next backend.
C19_PartialListOnRaise ==
    (p_pc = "done" /\ HasRecordList /\ Raisers # {}) =>
      /\ p_out = Normalized(ValidRecords(BeforeRaise, p_host), p_host)
      /\ ExceptContinue(TryRequest(Answer200, p_host)) =
           IF p_out # <<>>
           THEN [kind  |-> "return",
                 value |-> [ success     |-> TRUE,
                             products    |-> p_out,
                             total_found |-> Len(p_out),
                             source      |-> p_host ]]
           ELSE [kind |-> "next", why |-> "empty"]

C19_Witness ==
    /\ p_pc = "done"
    /\ HasRecordList
    /\ Raisers # {}
    /\ Min(Raisers) = 3
    /\ Len(p_out) = 2
    /\ \E i \in 4..Len(ItemsOf(p_data, p_host)) :
         i <= MaxProducts /\ IsValidRecord(ItemsOf(p_data, p_host)[i], p_host)

-----------------------------------------------------------------------------
(* main and initialize_crew (src/app.py): one run of the page script after
   the widgets are read.  `shown` is what the page has rendered so far. *)

\* products[:6]
CardLimit == 6

\* most products in a generated research output
MaxListed == 7

EnvUnset(v) == v = Null

\* `not os.getenv(NAME)`: the variable is unset or empty
EnvMissing(v) == ~Truthy(v)

EnvValues(name) == { Null, EmptyStr, S(Str(name)) }

\* a JSON object with a single key
KeyDoc(key, v) == <<"{", key, ":", " ">> \o v \o <<"}">>

\* {"products": [{}, ..., {}]} with n products
ProductsDoc(n) == KeyDoc("\"products\"", ArrOf([i \in 1..n |-> <<"{", "}">>]))

RecommendationsDoc == KeyDoc("\"recommendations\"", ArrOf(<<<<"{", "}">>>>))

BestDoc == KeyDoc("\"best_purchase_option\"", KeyDoc("\"a\"", <<"1">>))

\* the text inside a json code fence
Fenced(doc) == <<Fence, "json", "\n">> \o doc \o <<"\n", Fence>>

\* what the research task may write
ResearchTexts ==
    { ProductsDoc(0), ProductsDoc(1), ProductsDoc(MaxListed),
      Fenced(ProductsDoc(1)),
      <<"Here", " ">> \o ProductsDoc(1),
      <<"Here">>,
      <<"[", "1", "]">>,
      KeyDoc("\"products\"", <<"1">>),
      KeyDoc("\"products\"", <<"[", "1", "]">>) }

RecommendationTexts ==
    { RecommendationsDoc, Fenced(RecommendationsDoc), <<"Here">>, <<"{", "}">> }

PurchaseTexts == { BestDoc, Fenced(BestDoc), <<"Here">>, <<"{", "}">> }

\* a TaskOutput
TaskOutput(text) == [has_raw |-> TRUE, raw |-> text]

\* result.tasks_output: none, or the outputs of the first one, three or four
\* tasks (research, analysis, recommendation, purchase)
TaskOutputLists ==
    { <<>> }
    \cup { <<TaskOutput(r)>> : r \in ResearchTexts }
    \cup { <<[has_raw |-> FALSE]>> }
    \cup { <<TaskOutput(r), TaskOutput(<<"Here">>), TaskOutput(c)>> :
             r \in ResearchTexts, c \in RecommendationTexts }
    \cup { <<TaskOutput(r), TaskOutput(<<"Here">>), TaskOutput(c), TaskOutput(p)>> :
             r \in ResearchTexts, c \in RecommendationTexts, p \in PurchaseTexts }

\* what crew.kickoff() returns: a CrewOutput, a str, or a dict
CrewResults ==
    { [kind |-> "crew", raw |-> f, tasks_output |-> to] :
        f \in PurchaseTexts, to \in TaskOutputLists }
    \cup { [kind |-> "str", text |-> f] : f \in PurchaseTexts \cup {ProductsDoc(1)} }
    \cup { [kind |-> "dict", value |-> json_loads(d).val] :
             d \in {ProductsDoc(MaxListed), <<"{", "}">>} }

\* the except branch was taken
StageRaised == [raised |-> TRUE, val |-> Null]

StageValue(v) == [raised |-> FALSE, val |-> v]

\* json.loads(text)
Load(text) ==
    IF json_loads(text).ok THEN StageValue(json_loads(text).val) ELSE StageRaised

\* x.get(key, default) on what json.loads gave
GetOrRaise(x, key, default) ==
    IF x.raised \/ ~IsDict(x.val) THEN StageRaised
    ELSE StageValue(Get(x.val.o, key, default))

ReadStageLenient(output, key, default) ==
    IF ~output.has_raw THEN StageValue(default)
    ELSE IF GetOrRaise(Load(output.raw), key, default).raised THEN StageValue(default)
    ELSE GetOrRaise(Load(output.raw), key, default)

\* lines 450-455, 459-464, 470-475: json.loads(output.raw).get(key, default)
\* when the output has a raw attribute, else the default
ReadStage(output, key, default) ==
    IF ~output.has_raw THEN StageValue(default)
    ELSE GetOrRaise(Load(output.raw), key, default)

\* lines 440-445
ResultData(r) ==
    CASE r.kind = "crew" -> Load(r.raw)
      [] r.kind = "str"  -> Load(r.text)
      [] r.kind = "dict" -> StageValue(r.value)

Parsed(p, c, b) ==
    IF p.raised \/ c.raised \/ b.raised THEN NothingParsed
    ELSE [ok |-> TRUE, products |-> p.val, recommendations |-> c.val,
          best_choice |-> b.val]

\* lines 438-483: NothingParsed when an exception reaches the except branch
ParseCrewResult(r) ==
    IF ResultData(r).raised THEN NothingParsed
    ELSE IF r.kind = "crew" /\ r.tasks_output # <<>>
    THEN Parsed(ReadStage(r.tasks_output[1], "products", L(<<>>)),
                IF Len(r.tasks_output) > 2
                THEN ReadStage(r.tasks_output[3], "recommendations", L(<<>>))
                ELSE StageValue(L(<<>>)),
                IF Len(r.tasks_output) > 3
                THEN ReadStage(r.tasks_output[4], "best_purchase_option", O(EmptyDict))
                ELSE StageValue(O(EmptyDict)))
    ELSE Parsed(GetOrRaise(ResultData(r), "products", L(<<>>)),
                GetOrRaise(ResultData(r), "recommendations", L(<<>>)),
                GetOrRaise(ResultData(r), "best_purchase_option", O(EmptyDict)))

\* what one section renders, and whether rendering it raised
Rendered(ev) == [raised |-> FALSE, ev |-> ev]

RenderRaised(ev) == [raised |-> TRUE, ev |-> ev]

\* the items in front of the first one that is not a dict (item.get raises)
UpToFirstNonDict(items) ==
    IF \E i \in DOMAIN items : ~IsDict(items[i])
    THEN SubSeq(items, 1, Min({i \in DOMAIN items : ~IsDict(items[i])}) - 1)
    ELSE items

\* lines 486-490: the header, then one card per product of products[:6]
ProductEvents(products) ==
    IF ~Truthy(products) THEN Rendered(<<>>)
    ELSE IF products.t # "list" THEN RenderRaised(<<"products_header">>)
    ELSE LET first == Take(products.l, CardLimit)
             cards == [i \in DOMAIN UpToFirstNonDict(first) |-> "card"]
         IN  IF UpToFirstNonDict(first) = first
             THEN Rendered(<<"products_header">> \o cards)
             ELSE RenderRaised(<<"products_header">> \o cards)

\* lines 493-502
RecommendationEvents(recommendations) ==
    IF ~Truthy(recommendations) THEN Rendered(<<>>)
    ELSE IF recommendations.t # "list" THEN RenderRaised(<<"recommendations_header">>)
    ELSE LET recs == [i \in DOMAIN UpToFirstNonDict(recommendations.l) |-> "recommendation"]
         IN  IF UpToFirstNonDict(recommendations.l) = recommendations.l
             THEN Rendered(<<"recommendations_header">> \o recs)
             ELSE RenderRaised(<<"recommendations_header">> \o recs)

\* lines 505-518
BestChoiceEvents(best_choice) ==
    IF ~Truthy(best_choice) THEN Rendered(<<>>)
    ELSE IF IsDict(best_choice) THEN Rendered(<<"best_header", "best_choice">>)
    ELSE RenderRaised(<<"best_header">>)

\* lines 523-526: the except branch shows the raw result
RawEvents == <<"raw_header", "raw">>

\* lines 485-526: the sections in order, the success message after them; an
\* exception in a section ends in the except branch
DisplayEvents(d) ==
    LET p == ProductEvents(d.products)
        c == RecommendationEvents(d.recommendations)
        b == BestChoiceEvents(d.best_choice)
    IN  IF p.raised THEN p.ev \o RawEvents
        ELSE IF c.raised THEN p.ev \o c.ev \o RawEvents
        ELSE IF b.raised THEN p.ev \o c.ev \o b.ev \o RawEvents
        ELSE p.ev \o c.ev \o b.ev \o <<"success">>

MainInit ==
    /\ m_pc = "start"
    /\ GROQ_API_KEY \in EnvValues("gsk-key")
    /\ RAPIDAPI_KEY \in EnvValues("rapidapi-key")
    /\ user_query \in { EmptyStr, S(Str("gaming laptop RTX 4060")) }
    /\ search_button \in BOOLEAN
    /\ agents = Null
    /\ kickoffs = 0
    /\ crew_result = NoCrewResult
    /\ parsed = NothingParsed
    /\ shown = <<>>
    /\ RunIdle
    /\ ParseIdle
    /\ CleanIdle

\* line 388: `if search_button and user_query`, else only the footer
Submit ==
    /\ m_pc = "start"
    /\ m_pc' = IF search_button /\ Truthy(user_query) THEN "initialize" ELSE "done"
    /\ UNCHANGED <<GROQ_API_KEY, RAPIDAPI_KEY, user_query, search_button,
                   agents, kickoffs, crew_result, parsed, shown>>
    /\ UNCHANGED <<run_vars, parse_vars, clean_vars>>

\* lines 201-218 and 390-393: without the LLM key initialize_crew shows an
\* error and returns no agents, and st.stop() ends the run
InitializeCrew ==
    /\ m_pc = "initialize"
    /\ IF EnvMissing(GROQ_API_KEY)
       THEN /\ shown' = Append(shown, "error_groq_api_key")
            /\ agents' = Null
            /\ m_pc' = "stopped"
       ELSE /\ agents' = L(<<S(Str("research_agent")), S(Str("analysis_agent")),
                             S(Str("recommendation_agent")), S(Str("purchase_agent"))>>)
            /\ m_pc' = IF Truthy(agents') THEN "validate" ELSE "stopped"
            /\ UNCHANGED shown
    /\ UNCHANGED <<GROQ_API_KEY, RAPIDAPI_KEY, user_query, search_button,
                   kickoffs, crew_result, parsed>>
    /\ UNCHANGED <<run_vars, parse_vars, clean_vars>>

\* lines 404-411: each missing key shows an error and st.stop() ends the run
ValidateKeys ==
    /\ m_pc = "validate"
    /\ IF EnvMissing(GROQ_API_KEY)
       THEN /\ shown' = Append(shown, "error_groq_required")
            /\ m_pc' = "stopped"
       ELSE IF EnvMissing(RAPIDAPI_KEY)
       THEN /\ shown' = Append(shown, "error_rapidapi_required")
            /\ m_pc' = "stopped"
       ELSE /\ m_pc' = "kickoff"
            /\ UNCHANGED shown
    /\ UNCHANGED <<GROQ_API_KEY, RAPIDAPI_KEY, user_query, search_button,
                   agents, kickoffs, crew_result, parsed>>
    /\ UNCHANGED <<run_vars, parse_vars, clean_vars>>

\* lines 413-435 and 528-531: the crew runs; an exception out of it is shown
\* as an error by the outer except branch
Kickoff ==
    /\ m_pc = "kickoff"
    /\ kickoffs' = kickoffs + 1
    /\ \/ /\ crew_result' \in CrewResults
          /\ m_pc' = "parse"
          /\ UNCHANGED shown
       \/ /\ shown' = Append(shown, "error_during_search")
          /\ m_pc' = "done"
          /\ UNCHANGED crew_result
    /\ UNCHANGED <<GROQ_API_KEY, RAPIDAPI_KEY, user_query, search_button,
                   agents, parsed>>
    /\ UNCHANGED <<run_vars, parse_vars, clean_vars>>

\* lines 437-483 and 523-526: every output is parsed; an exception goes to
\* the except branch, which shows the raw result
ParseOutputs ==
    /\ m_pc = "parse"
    /\ parsed' = ParseCrewResult(crew_result)
    /\ IF parsed'.ok
       THEN /\ m_pc' = "display"
            /\ UNCHANGED shown
       ELSE /\ m_pc' = "done"
            /\ shown' = shown \o RawEvents
    /\ UNCHANGED <<GROQ_API_KEY, RAPIDAPI_KEY, user_query, search_button,
                   agents, kickoffs, crew_result>>
    /\ UNCHANGED <<run_vars, parse_vars, clean_vars>>

\* lines 485-526
Display ==
    /\ m_pc = "display"
    /\ shown' = shown \o DisplayEvents(parsed)
    /\ m_pc' = "done"
    /\ UNCHANGED <<GROQ_API_KEY, RAPIDAPI_KEY, user_query, search_button,
                   agents, kickoffs, crew_result, parsed>>
    /\ UNCHANGED <<run_vars, parse_vars, clean_vars>>

MainNext ==
    Submit \/ InitializeCrew \/ ValidateKeys \/ Kickoff \/ ParseOutputs \/ Display

SpecMain == MainInit /\ [][MainNext]_vars

\* a search was submitted
Submitted == m_pc # "idle" /\ search_button /\ Truthy(user_query)

\* the LLM key or the product-search key is unset or empty
CredentialMissing == ~Truthy(GROQ_API_KEY) \/ ~Truthy(RAPIDAPI_KEY)

ErrorEvents ==
    {"error_groq_api_key", "error_groq_required", "error_rapidapi_required"}

\* the events of a sequence, as a set
Events(seq) == {seq[i] : i \in DOMAIN seq}

\* C15: when a search is submitted with either credential missing, the crew
\* is never started (no kickoff, hence no network call): the run only ever
\* stands before the checks or is halted, and once halted a credential error
\* is on the page.
C15_NoKickoffWithoutCredentials ==
    (Submitted /\ CredentialMissing) =>
      /\ kickoffs = 0
      /\ crew_result = NoCrewResult
      /\ m_pc \in {"start", "initialize", "validate", "stopped"}
      /\ m_pc = "stopped" =>
           /\ Len(shown) = 1
           /\ shown[1] \in ErrorEvents

C15_Witness ==
    /\ Submitted
    /\ Truthy(GROQ_API_KEY)
    /\ RAPIDAPI_KEY = EmptyStr
    /\ agents # Null
    /\ m_pc = "stopped"
    /\ shown = <<"error_rapidapi_required">>
    /\ kickoffs = 0

\* the texts main hands to json.loads when no parse fails
ReadTexts(r) ==
    CASE r.kind = "crew" ->
           {r.raw}
           \cup {r.tasks_output[i].raw :
                   i \in {j \in {1, 3, 4} : j \in DOMAIN r.tasks_output
                                              /\ r.tasks_output[j].has_raw}}
      [] r.kind = "str"  -> {r.text}
      [] OTHER           -> {}

DirectlyParseable(text) == json_loads(text).ok

\* the number of events e in a sequence
Count(seq, e) == Cardinality({i \in DOMAIN seq : seq[i] = e})

\* the research output is there and clean_json_response gives it a non-empty
\* list of products
NormalizerFindsProducts ==
    /\ crew_result.kind = "crew"
    /\ Len(crew_result.tasks_output) = 4
    /\ LET v == clean_json_text(crew_result.tasks_output[1].raw)
       IN  /\ IsDict(v)
           /\ "products" \in DOMAIN v.o
           /\ v.o["products"].t = "list"
           /\ v.o["products"].l # <<>>
           /\ \A i \in DOMAIN v.o["products"].l : IsDict(v.o["products"].l[i])

\* C16: each stage output read for display goes through the normalizer
\* before its fields are accessed, so a research output that is JSON inside
\* a code fence or inside prose still has its products displayed (the other
\* outputs being plain JSON).
C16_StagesAreNormalized ==
    ( /\ m_pc = "done"
      /\ NormalizerFindsProducts
      /\ \A t \in ReadTexts(crew_result) \ {crew_result.tasks_output[1].raw} :
           DirectlyParseable(t) ) =>
      /\ "products_header" \in Events(shown)
      /\ Count(shown, "card") =
           Len(Take(clean_json_text(crew_result.tasks_output[1].raw).o["products"].l,
                    CardLimit))

SectionEvents ==
    {"products_header", "card", "recommendations_header", "recommendation",
     "best_header", "best_choice", "success"}

\* C20: the outputs are all parsed before any section is rendered; if one of
\* them is not directly parseable JSON, no section and no success message is
\* shown and the raw result is displayed instead; the run ends without an
\* exception leaving main; at most 6 product cards are rendered.
C20_AllOrNothingDisplay ==
    /\ m_pc \in {"kickoff", "parse", "display"} => Events(shown) \cap SectionEvents = {}
    /\ (m_pc = "done" /\ \E t \in ReadTexts(crew_result) : ~DirectlyParseable(t)) =>
         /\ Events(shown) \cap SectionEvents = {}
         /\ shown = RawEvents
    /\ m_pc \in {"idle", "start", "initialize", "validate", "kickoff", "parse",
                  "display", "done", "stopped"}
    /\ Count(shown, "card") <= CardLimit
    /\ (m_pc = "done" /\ parsed.ok /\ parsed.products.t = "list"
          /\ \A i \in DOMAIN parsed.products.l : IsDict(parsed.products.l[i])) =>
         Count(shown, "card") = Len(Take(parsed.products.l, CardLimit))

C20_Witness ==
    /\ m_pc = "done"
    /\ crew_result.kind = "crew"
    /\ Len(crew_result.tasks_output) = 4
    /\ crew_result.raw = BestDoc
    /\ crew_result.tasks_output[1].raw = ProductsDoc(MaxListed)
    /\ crew_result.tasks_output[3].raw = RecommendationsDoc
    /\ ~DirectlyParseable(crew_result.tasks_output[4].raw)
    /\ shown = RawEvents

====
